---- MODULE Spec2Model ----
(***************************************************************************)
(* Model of ocr_translate_hugging_face/plugin.py: the Loaders helper, the  *)
(* get_mnt heuristic and the two adapters HugginfaceSeq2SeqModel and       *)
(* HugginfaceVEDModel.  The wrapped library (transformers, torch, PIL) is  *)
(* the environment: each of its calls is logged in `trace` and its outcome *)
(* is a nondeterministic choice.                                           *)
(***************************************************************************)
EXTENDS Integers, Sequences, FiniteSets, TLC

VARIABLES
    dev,    \* EnvMixin.dev: the DEVICE setting of the adapters
    m2m,    \* whether the tokenizer class of the model is M2M100Tokenizer
    tsl,    \* HugginfaceSeq2SeqModel fields: model, tokenizer
    ocr,    \* HugginfaceVEDModel fields: model, tokenizer, image_processor
    call,   \* the call being made: its name and arguments
    ret,    \* how the call ended: a returned value or a raised exception
    trace   \* the library calls the call made, in order

vars == <<dev, m2m, tsl, ocr, call, ret, trace>>

\* Python's None (an object of class NoneType), and the mark of a dict key,
\* an argument or an attribute that was not given.
None == [type |-> "NoneType"]
Absent == "absent"

\* Outcomes of a call.
Return(v) == [kind |-> "return", value |-> v]
Raise(e) == [kind |-> "raise", exc |-> e]
Pending == [kind |-> "pending"]

(***************************************************************************)
(* Bounds of the model.                                                    *)
(***************************************************************************)
MaxNtok == 4        \* short inputs have 0..MaxNtok tokens
LongNtok == 200     \* one long input, enough to reach the default upper cap
MaxCap == 4         \* explicit caps are 0..MaxCap
RatioBits == 1      \* ratios are multiples of 1 / 2^RatioBits (exact floats)
MaxRatioNum == 5    \* explicit ratios are -1/RatioDen .. MaxRatioNum/RatioDen
MaxReq == 2         \* Loaders.load request lists have at most MaxReq kinds
MaxTokens == 2      \* a token sequence has at most MaxTokens words
MaxBatch == 2       \* a batch has at most MaxBatch token sequences

RatioDen == 2 ^ RatioBits

(***************************************************************************)
(* get_mnt                                                                 *)
(***************************************************************************)
\* ALLOWED_OPTIONS defaults, also the defaults of options.get in get_mnt.
DefaultMinMaxNewTokens == 20
DefaultMaxMaxNewTokens == 512
DefaultMaxNewTokensRatio == 3

\* dict.get(key, default)
Get(d, key, default) == IF key \in DOMAIN d THEN d[key] ELSE default

\* The options get_mnt reads, and the values each takes in the model.  The
\* ratio is held as its numerator over RatioDen.
OptionKeys == {"min_max_new_tokens", "max_max_new_tokens", "max_new_tokens_ratio"}
CapValues == 0..MaxCap
RatioNums == (-1)..MaxRatioNum
OptionValues(k) == IF k = "max_new_tokens_ratio" THEN RatioNums ELSE CapValues
Ntoks == (0..MaxNtok) \cup {LongNtok}

\* The options dicts: any subset of the keys may be present.
OptionDicts ==
    UNION {{o \in [S -> CapValues \cup RatioNums] : \A k \in S : o[k] \in OptionValues(k)} :
              S \in SUBSET OptionKeys}

\* int(x) of a float x = v / RatioDen: truncation toward zero.
IntOf(v) == IF v >= 0 THEN v \div RatioDen ELSE -((-v) \div RatioDen)

\* Python max(a, b) and min(a, b) on two arguments: the first wins a tie.
PyMax(a, b) == IF b > a THEN b ELSE a
PyMin(a, b) == IF b < a THEN b ELSE a

\* A faulty variant of get_mnt: the lower cap is not applied.
get_mnt_nofloor(ntok, options) ==
    LET min_max_new_tokens == Get(options, "min_max_new_tokens", DefaultMinMaxNewTokens)
        max_max_new_tokens == Get(options, "max_max_new_tokens", DefaultMaxMaxNewTokens)
        ratio == Get(options, "max_new_tokens_ratio", DefaultMaxNewTokensRatio * RatioDen)
    IN  IF min_max_new_tokens > max_max_new_tokens
        THEN Raise("ValueError")
        ELSE Return(IntOf(PyMin(max_max_new_tokens * RatioDen, ratio * ntok)))

\* A faulty variant of get_mnt: equal caps are rejected too.
get_mnt_strict(ntok, options) ==
    LET min_max_new_tokens == Get(options, "min_max_new_tokens", DefaultMinMaxNewTokens)
        max_max_new_tokens == Get(options, "max_max_new_tokens", DefaultMaxMaxNewTokens)
        ratio == Get(options, "max_new_tokens_ratio", DefaultMaxNewTokensRatio * RatioDen)
    IN  IF min_max_new_tokens >= max_max_new_tokens
        THEN Raise("ValueError")
        ELSE Return(IntOf(PyMin(max_max_new_tokens * RatioDen,
                                PyMax(min_max_new_tokens * RatioDen, ratio * ntok))))

\* get_mnt(ntok, options).  Values are scaled by RatioDen until int().
get_mnt(ntok, options) ==
    LET min_max_new_tokens == Get(options, "min_max_new_tokens", DefaultMinMaxNewTokens)
        max_max_new_tokens == Get(options, "max_max_new_tokens", DefaultMaxMaxNewTokens)
        max_new_tokens_ratio ==
            Get(options, "max_new_tokens_ratio", DefaultMaxNewTokensRatio * RatioDen)
    IN  IF min_max_new_tokens > max_max_new_tokens
        THEN Raise("ValueError")
        ELSE LET mnt == PyMin(max_max_new_tokens * RatioDen,
                              PyMax(min_max_new_tokens * RatioDen,
                                    max_new_tokens_ratio * ntok))
             IN  Return(IntOf(mnt))

(***************************************************************************)
(* Loaders                                                                 *)
(***************************************************************************)
\* A faulty variant of accept_device: the plain 'model' kind is left where it was loaded.
accept_device_short == {"ved_model", "seq2seq"}

\* Loaders.accept_device
accept_device == {"ved_model", "seq2seq", "model"}

\* Loaders.mapping: request kind -> transformers class
mapping ==
    [k \in {"tokenizer", "ved_model", "model", "image_processor", "seq2seq"} |->
        CASE k = "tokenizer" -> "AutoTokenizer"
          [] k = "ved_model" -> "VisionEncoderDecoderModel"
          [] k = "model" -> "AutoModel"
          [] k = "image_processor" -> "AutoImageProcessor"
          [] k = "seq2seq" -> "AutoModelForSeq2SeqLM"]

\* What one from_pretrained call of the library does: it returns an object,
\* returns None, or raises.
LibOutcomes == {"ok", "none", "OSError"}
\* The library's answers to the local and to the remote attempt of one _load;
\* the remote answer is drawn only when the remote attempt is made, that is
\* when the local attempt raises.
LibPairs ==
    {p \in [local : LibOutcomes, remote : LibOutcomes \cup {Absent}] :
        (p.remote = Absent) <=> (p.local # "OSError")}

\* The object from_pretrained returns: its class, the tier it came from, the
\* device it was moved to and its src_lang attribute (Absent: not set by
\* the plugin).
Artifact(cls, tier) == [cls |-> cls, tier |-> tier, device |-> Absent, src_lang |-> Absent]
\* cls.to(dev): torch returns the object, now on the device.
To(obj, d) == [obj EXCEPT !.device = d]

\* loader.from_pretrained(mid) and loader.from_pretrained(model_id, cache_dir=root)
FromPretrained(loader, tier, model_id, root, outcome) ==
    [fn |-> "from_pretrained", cls |-> loader, tier |-> tier,
     arg |-> IF tier = "local" THEN <<root, model_id>> ELSE <<model_id>>,
     cache_dir |-> IF tier = "local" THEN Absent ELSE root,
     outcome |-> outcome]
LibResult(loader, tier, outcome) ==
    CASE outcome = "ok" -> Return(Artifact(loader, tier))
      [] outcome = "none" -> Return(None)
      [] OTHER -> Raise(outcome)

\* A faulty variant of _load: the remote attempt is made although the local one succeeded.
load1_always_remote(loader, model_id, root, lib) ==
    [out |-> LibResult(loader, "remote", lib.remote),
     trace |-> <<FromPretrained(loader, "local", model_id, root, lib.local),
                 FromPretrained(loader, "remote", model_id, root, lib.remote)>>]

\* Loaders._load(loader, model_id, root); lib is what the library answers.
load1(loader, model_id, root, lib) ==
    LET local == FromPretrained(loader, "local", model_id, root, lib.local)
        remote == FromPretrained(loader, "remote", model_id, root, lib.remote)
    IN  IF LibResult(loader, "local", lib.local).kind = "raise"
        THEN [out |-> LibResult(loader, "remote", lib.remote), trace |-> <<local, remote>>]
        ELSE [out |-> LibResult(loader, "local", lib.local), trace |-> <<local>>]

\* res[r] = cls on a dict
Put(res, r, cls) == [k \in DOMAIN res \cup {r} |-> IF k = r THEN cls ELSE res[k]]

\* The loop of Loaders.load from request[i] on, with the dict and the library
\* calls so far.
RECURSIVE LoadFrom(_, _, _, _, _, _, _, _)
LoadFrom(i, model_id, request, root, d, env, res, log) ==
    IF i > Len(request)
    THEN [out |-> Return(res), trace |-> log]
    ELSE LET r == request[i] IN
         IF r \notin DOMAIN mapping
         THEN [out |-> Raise("ValueError"), trace |-> log]
         ELSE LET got == load1(mapping[r], model_id, root, env[i]) IN
              IF got.out.kind = "raise"
              THEN [out |-> got.out, trace |-> log \o got.trace]
              ELSE IF got.out.value = None
              THEN [out |-> Raise("ValueError"), trace |-> log \o got.trace]
              ELSE IF r \in accept_device
              THEN LoadFrom(i + 1, model_id, request, root, d, env,
                            Put(res, r, To(got.out.value, d)),
                            log \o got.trace \o
                                <<[fn |-> "to", cls |-> mapping[r], dev |-> d]>>)
              ELSE LoadFrom(i + 1, model_id, request, root, d, env,
                            Put(res, r, got.out.value), log \o got.trace)

\* Loaders.load(model_id, request, root, dev); env[i] is what the library
\* answers to the i-th _load.
load(model_id, request, root, d, env) ==
    LoadFrom(1, model_id, request, root, d, env, <<>>, <<>>)

\* The model id and cache root of the calls.
ModelId == "model_id"
Root == "root"

(***************************************************************************)
(* Adapter state before any load: __init__ of the two adapters.            *)
(***************************************************************************)
Devices == {"cpu", "cuda"}

TslInit == [model |-> None, tokenizer |-> None]
OcrInit == [model |-> None, tokenizer |-> None, image_processor |-> None]

(***************************************************************************)
(* Python values passed to the adapters.                                   *)
(***************************************************************************)
PyStr(x) == [type |-> "str", v |-> x]
PyInt == [type |-> "int", v |-> "1"]
PyList(items) == [type |-> "list", items |-> items]
Words(n) == PyList([i \in 1..n |-> PyStr("w")])

\* tokens: values that are no list, lists of strings (the empty one too),
\* lists of lists of strings, and lists holding something else.
NonLists == {PyStr("w"), PyInt, None}
StrLists == {Words(n) : n \in 0..MaxTokens}
ListLists == {PyList([i \in 1..b |-> Words(n)]) : b \in 1..MaxBatch, n \in {1, MaxTokens}}
BadLists == {PyList(<<PyInt>>), PyList(<<PyStr("w"), PyInt>>), PyList(<<PyList(<<PyInt>>)>>)}
TokenInputs == NonLists \cup StrLists \cup ListLists \cup BadLists

\* options: None, or a dict: the empty one, or one giving both caps.
NoOptions == [given |-> FALSE]
Options(o) == [given |-> TRUE, dict |-> o]
TranslateOptions ==
    {NoOptions} \cup
    {Options(o) : o \in {d \in OptionDicts :
        \/ DOMAIN d = {}
        \/ /\ DOMAIN d = {"min_max_new_tokens", "max_max_new_tokens"}
           /\ d["min_max_new_tokens"] \in {0, MaxCap}
           /\ d["max_max_new_tokens"] = MaxCap - d["min_max_new_tokens"]}}

\* img: a Pillow image, and values that are none.
PilImage == [type |-> "PIL.Image"]
Images == {PilImage, [type |-> "ndarray"], PyStr("w"), None}

\* The languages of the translation calls.
SrcLang == "en"
DstLang == "ja"

(***************************************************************************)
(* The library calls of the adapters.                                      *)
(***************************************************************************)
\* Whether tokens is what the tokenizer is documented to take with
\* is_split_into_words: a list of strings or a list of lists of strings.
IsStrList(x) == x.type = "list" /\ \A i \in DOMAIN x.items : x.items[i].type = "str"
WellFormed(x) ==
    /\ x.type = "list"
    /\ \/ IsStrList(x)
       \/ \A i \in DOMAIN x.items : IsStrList(x.items[i])
\* What the tokenizer may do with tokens: it encodes them, and may raise on
\* input it is not documented to take.
TokenizerAnswers(x) == IF WellFormed(x) THEN {"ok"} ELSE {"ok", "ValueError"}
\* encoded['input_ids'].shape[1] of the encoding: a short one and a long one
\* when the tokenizer is reached (no answer is drawn when it is not).
NtokAnswers(x) ==
    IF x.type = "list" /\ Len(x.items) > 0 THEN {1, MaxNtok} ELSE {1}
\* What the image processor may do with img.
ProcessorAnswers(img) == IF img = PilImage THEN {"ok"} ELSE {"ok", "ValueError"}
\* The number of sequences the tokenizer makes of tokens: one of a list of
\* words, one per element otherwise.
BatchOf(x) == IF x.items[1].type = "str" THEN 1 ELSE Len(x.items)

EmptyCache == IF dev = "cuda" THEN <<[fn |-> "torch.cuda.empty_cache"]>> ELSE <<>>

(***************************************************************************)
(* HugginfaceSeq2SeqModel                                                  *)
(***************************************************************************)
\* What a method did: the fields of self after it, how it ended and the
\* library calls it made.
Did(self, out, log) == [self |-> self, out |-> out, trace |-> log]

\* A faulty variant of load: the model is loaded and stored before the
\* tokenizer is loaded.
tsl_load_piecewise(self, env) ==
    LET first == load(ModelId, <<"seq2seq">>, Root, dev, env)
        second == load(ModelId, <<"tokenizer">>, Root, dev, [i \in {1} |-> env[2]])
    IN  IF first.out.kind = "raise"
        THEN Did(self, first.out, first.trace)
        ELSE IF second.out.kind = "raise"
        THEN Did([self EXCEPT !.model = first.out.value["seq2seq"]],
                 second.out, first.trace \o second.trace)
        ELSE Did([self EXCEPT !.model = first.out.value["seq2seq"],
                              !.tokenizer = second.out.value["tokenizer"]],
                 Return(None), first.trace \o second.trace)

\* HugginfaceSeq2SeqModel.load
tsl_load(self, env) ==
    LET res == load(ModelId, <<"seq2seq", "tokenizer">>, Root, dev, env) IN
    IF res.out.kind = "raise"
    THEN Did(self, res.out, res.trace)
    ELSE Did([self EXCEPT !.model = res.out.value["seq2seq"],
                          !.tokenizer = res.out.value["tokenizer"]],
             Return(None), res.trace)

\* A faulty variant of unload: the tokenizer is kept.
tsl_unload_keeps_tokenizer(self) ==
    Did([self EXCEPT !.model = None], Return(None), EmptyCache)

\* HugginfaceSeq2SeqModel.unload
tsl_unload(self) ==
    Did([self EXCEPT !.model = IF self.model # None THEN None ELSE @,
                     !.tokenizer = IF self.tokenizer # None THEN None ELSE @],
        Return(None), EmptyCache)

\* A faulty variant of the decoding: the list of translations is returned as
\* it is, for a single sequence too.
translate_run_always_list(self, tokens, src_lang, dst_lang, options, lib) ==
    LET self1 == [self EXCEPT !.tokenizer.src_lang = src_lang]
        tokenize == [fn |-> "tokenizer", text |-> tokens, is_split_into_words |-> TRUE]
        moved == [fn |-> "encoded.to", dev |-> dev]
        mnt == get_mnt(lib.ntok, options)
        generate == [fn |-> "model.generate", batch |-> BatchOf(tokens),
                     max_new_tokens |-> mnt.value,
                     forced_bos_token_id |-> IF m2m THEN dst_lang ELSE Absent]
        decode == [fn |-> "tokenizer.batch_decode", batch |-> BatchOf(tokens)]
    IN  IF lib.tokenizer # "ok"
        THEN Did(self1, Raise(lib.tokenizer), <<tokenize>>)
        ELSE IF mnt.kind = "raise"
        THEN Did(self1, mnt, <<tokenize, moved>>)
        ELSE Did(self1, Return(PyList([i \in 1..BatchOf(tokens) |-> PyStr("tsl")])),
                 <<tokenize, moved, generate, decode>> \o EmptyCache)

\* The part of _translate after the guards: tokenize, generate, decode.
translate_run(self, tokens, src_lang, dst_lang, options, lib) ==
    LET self1 == [self EXCEPT !.tokenizer.src_lang = src_lang]
        tokenize == [fn |-> "tokenizer", text |-> tokens, is_split_into_words |-> TRUE]
        ntok == lib.ntok
        moved == [fn |-> "encoded.to", dev |-> dev]
        mnt == get_mnt(ntok, options)
        lang_id == IF m2m THEN <<[fn |-> "tokenizer.get_lang_id", lang |-> dst_lang]>>
                   ELSE <<>>
        generate == [fn |-> "model.generate", batch |-> BatchOf(tokens),
                     max_new_tokens |-> mnt.value,
                     forced_bos_token_id |-> IF m2m THEN dst_lang ELSE Absent]
        decode == [fn |-> "tokenizer.batch_decode", batch |-> BatchOf(tokens)]
        tsl_out == [i \in 1..BatchOf(tokens) |-> PyStr("tsl")]
    IN  IF lib.tokenizer # "ok"
        THEN Did(self1, Raise(lib.tokenizer), <<tokenize>>)
        ELSE IF mnt.kind = "raise"
        THEN Did(self1, mnt, <<tokenize, moved>>)
        ELSE Did(self1,
                 Return(IF tokens.items[1].type = "str" THEN tsl_out[1] ELSE PyList(tsl_out)),
                 <<tokenize, moved>> \o lang_id \o <<generate, decode>> \o EmptyCache)

\* A faulty variant of _translate: the arguments are checked before the artifacts.
translate_args_first(self, tokens, src_lang, dst_lang, options, lib) ==
    IF tokens.type # "list"
    THEN Did(self, Raise("TypeError"), <<>>)
    ELSE IF self.model = None \/ self.tokenizer = None
    THEN Did(self, Raise("RuntimeError"), <<>>)
    ELSE IF Len(tokens.items) = 0
    THEN Did(self, Return(PyStr("")), <<>>)
    ELSE translate_run(self, tokens, src_lang, dst_lang,
                       IF options.given THEN options.dict ELSE <<>>, lib)

\* HugginfaceSeq2SeqModel._translate; lib is what the tokenizer answers.
translate(self, tokens, src_lang, dst_lang, options, lib) ==
    IF self.model = None \/ self.tokenizer = None
    THEN Did(self, Raise("RuntimeError"), <<>>)
    ELSE IF tokens.type # "list"
    THEN Did(self, Raise("TypeError"), <<>>)
    ELSE IF Len(tokens.items) = 0
    THEN Did(self, Return(PyStr("")), <<>>)
    ELSE translate_run(self, tokens, src_lang, dst_lang,
                       IF options.given THEN options.dict ELSE <<>>, lib)

(***************************************************************************)
(* HugginfaceVEDModel                                                      *)
(***************************************************************************)
\* HugginfaceVEDModel.load
ocr_load(self, env) ==
    LET res == load(ModelId, <<"ved_model", "tokenizer", "image_processor">>, Root, dev, env) IN
    IF res.out.kind = "raise"
    THEN Did(self, res.out, res.trace)
    ELSE Did([self EXCEPT !.model = res.out.value["ved_model"],
                          !.tokenizer = res.out.value["tokenizer"],
                          !.image_processor = res.out.value["image_processor"]],
             Return(None), res.trace)

\* HugginfaceVEDModel.unload
ocr_unload(self) ==
    Did([self EXCEPT !.model = IF self.model # None THEN None ELSE @,
                     !.tokenizer = IF self.tokenizer # None THEN None ELSE @,
                     !.image_processor = IF self.image_processor # None THEN None ELSE @],
        Return(None), EmptyCache)

\* HugginfaceVEDModel._ocr; lib is what the image processor answers.
ocr_run(self, img, lang, options, lib) ==
    IF self.model = None \/ self.tokenizer = None \/ self.image_processor = None
    THEN Did(self, Raise("RuntimeError"), <<>>)
    ELSE LET process == [fn |-> "image_processor", img |-> img]
             cuda == IF dev = "cuda" THEN <<[fn |-> "pixel_values.cuda"]>> ELSE <<>>
             generate == [fn |-> "model.generate"]
             decode == [fn |-> "tokenizer.batch_decode"]
         IN  IF lib.processor # "ok"
             THEN Did(self, Raise(lib.processor), <<process>>)
             ELSE Did(self, Return(PyStr("text")),
                      <<process>> \o cuda \o <<generate, decode>> \o EmptyCache)

(***************************************************************************)
(* SpecMnt: get_mnt applied to every bounded input.                        *)
(***************************************************************************)
InitMnt ==
    /\ dev = "cpu"
    /\ m2m = FALSE
    /\ tsl = TslInit
    /\ ocr = OcrInit
    /\ call \in {[op |-> "get_mnt", ntok |-> n, options |-> o] :
                    n \in Ntoks, o \in OptionDicts}
    /\ ret = Pending
    /\ trace = <<>>

CallGetMnt ==
    /\ call.op = "get_mnt"
    /\ ret = Pending
    /\ ret' = get_mnt(call.ntok, call.options)
    /\ UNCHANGED <<dev, m2m, tsl, ocr, call, trace>>

NextMnt == CallGetMnt

SpecMnt == InitMnt /\ [][NextMnt]_vars

(***************************************************************************)
(* SpecLoaders: Loaders.load called directly, on every bounded request.    *)
(***************************************************************************)
\* The kinds a request may name: the keys of mapping and an unknown one.
RequestKinds == DOMAIN mapping \cup {"bogus"}
Requests == UNION {[1..n -> RequestKinds] : n \in 0..MaxReq}

InitLoaders ==
    /\ dev = "cpu"
    /\ m2m = FALSE
    /\ tsl = TslInit
    /\ ocr = OcrInit
    /\ call \in {[op |-> "Loaders.load", request |-> rq, dev |-> d] :
                    rq \in Requests, d \in Devices \cup {Absent}}
    /\ ret = Pending
    /\ trace = <<>>

\* dev: str = 'cpu'
DevArg(d) == IF d = Absent THEN "cpu" ELSE d

CallLoad ==
    /\ call.op = "Loaders.load"
    /\ ret = Pending
    /\ \E env \in [1..Len(call.request) -> LibPairs] :
          LET r == load(ModelId, call.request, Root, DevArg(call.dev), env)
          IN  /\ ret' = r.out
              /\ trace' = r.trace
    /\ UNCHANGED <<dev, m2m, tsl, ocr, call>>

NextLoaders == CallLoad

SpecLoaders == InitLoaders /\ [][NextLoaders]_vars

(***************************************************************************)
(* Spec: the host drives one adapter through load, unload and use.  The    *)
(* two adapters are separate objects sharing no state; each behaviour      *)
(* drives one of them, the other stays as __init__ left it.                *)
(***************************************************************************)
\* A call on an adapter: the object, the method, the fields of the object
\* when the call was made, and the arguments.
Init ==
    /\ dev \in Devices
    /\ m2m \in BOOLEAN
    /\ tsl = TslInit
    /\ ocr = OcrInit
    /\ call \in {[op |-> "__init__", self |-> a] : a \in {"tsl", "ocr"}}
    /\ ret = Return(None)
    /\ trace = <<>>

TslLoad ==
    /\ call.self = "tsl"
    /\ \E env \in [1..2 -> LibPairs] :
          LET r == tsl_load(tsl, env)
          IN  /\ tsl' = r.self
              /\ ret' = r.out
              /\ trace' = r.trace
    /\ call' = [op |-> "load", self |-> "tsl", before |-> tsl]
    /\ UNCHANGED <<dev, m2m, ocr>>

TslUnload ==
    /\ call.self = "tsl"
    /\ LET r == tsl_unload(tsl)
       IN  /\ tsl' = r.self
           /\ ret' = r.out
           /\ trace' = r.trace
    /\ call' = [op |-> "unload", self |-> "tsl", before |-> tsl]
    /\ UNCHANGED <<dev, m2m, ocr>>

TslTranslate ==
    /\ call.self = "tsl"
    /\ \E tokens \in TokenInputs, options \in TranslateOptions :
          \E answer \in TokenizerAnswers(tokens), ntok \in NtokAnswers(tokens) :
              LET r == translate(tsl, tokens, SrcLang, DstLang, options,
                                 [tokenizer |-> answer, ntok |-> ntok])
              IN  /\ tsl' = r.self
                  /\ ret' = r.out
                  /\ trace' = r.trace
                  /\ call' = [op |-> "_translate", self |-> "tsl", before |-> tsl,
                              tokens |-> tokens, src_lang |-> SrcLang,
                              dst_lang |-> DstLang, options |-> options]
    /\ UNCHANGED <<dev, m2m, ocr>>

OcrLoad ==
    /\ call.self = "ocr"
    /\ \E env \in [1..3 -> LibPairs] :
          LET r == ocr_load(ocr, env)
          IN  /\ ocr' = r.self
              /\ ret' = r.out
              /\ trace' = r.trace
    /\ call' = [op |-> "load", self |-> "ocr", before |-> ocr]
    /\ UNCHANGED <<dev, m2m, tsl>>

OcrUnload ==
    /\ call.self = "ocr"
    /\ LET r == ocr_unload(ocr)
       IN  /\ ocr' = r.self
           /\ ret' = r.out
           /\ trace' = r.trace
    /\ call' = [op |-> "unload", self |-> "ocr", before |-> ocr]
    /\ UNCHANGED <<dev, m2m, tsl>>

OcrOcr ==
    /\ call.self = "ocr"
    /\ \E img \in Images, options \in {NoOptions, Options(<<>>)} :
          \E answer \in ProcessorAnswers(img) :
              LET r == ocr_run(ocr, img, None, options, [processor |-> answer])
              IN  /\ ocr' = r.self
                  /\ ret' = r.out
                  /\ trace' = r.trace
                  /\ call' = [op |-> "_ocr", self |-> "ocr", before |-> ocr,
                              img |-> img, options |-> options]
    /\ UNCHANGED <<dev, m2m, tsl>>

Next ==
    \/ TslLoad
    \/ TslUnload
    \/ TslTranslate
    \/ OcrLoad
    \/ OcrUnload
    \/ OcrOcr

Spec == Init /\ [][Next]_vars

\* The caps and ratio a call of get_mnt works with, read off its arguments.
MinCap == IF "min_max_new_tokens" \in DOMAIN call.options
          THEN call.options["min_max_new_tokens"] ELSE 20
MaxCapOf == IF "max_max_new_tokens" \in DOMAIN call.options
            THEN call.options["max_max_new_tokens"] ELSE 512
RatioNum == IF "max_new_tokens_ratio" \in DOMAIN call.options
            THEN call.options["max_new_tokens_ratio"] ELSE 3 * RatioDen
MntDone == call.op = "get_mnt" /\ ret # Pending

\* C1: for ntok >= 0 and min cap <= max cap, get_mnt returns
\* min(max_cap, max(min_cap, ratio * ntok)) truncated to an integer, with the
\* defaults 20, 512 and 3 for absent options; the result lies in [min_cap, max_cap].
C1_GetMntFormula ==
    (MntDone /\ MinCap <= MaxCapOf) =>
        /\ ret.kind = "return"
        /\ ret.value \in MinCap..MaxCapOf
        /\ LET x == RatioNum * call.ntok
               v == ret.value
           IN  /\ x <= MinCap * RatioDen => v = MinCap
               /\ x >= MaxCapOf * RatioDen => v = MaxCapOf
               /\ (MinCap * RatioDen < x /\ x < MaxCapOf * RatioDen) =>
                     (v * RatioDen <= x /\ x < (v + 1) * RatioDen)

\* A call where the ratio term decides and is truncated: 3 tokens at ratio 1.5
\* under caps 0 and the default 512 give 4.
C1_Witness ==
    /\ MntDone
    /\ "max_max_new_tokens" \notin DOMAIN call.options
    /\ MinCap < MaxCapOf
    /\ RatioNum * call.ntok > MinCap * RatioDen
    /\ (RatioNum * call.ntok) % RatioDen # 0
    /\ ret.kind = "return"
    /\ ret.value > MinCap

\* C9: get_mnt raises ValueError exactly when the min cap exceeds the max cap;
\* with equal caps it raises nothing and returns the common value.
C9_GetMntError ==
    MntDone =>
        /\ (ret = Raise("ValueError")) <=> (MinCap > MaxCapOf)
        /\ MinCap = MaxCapOf => ret = Return(MinCap)

\* Equal caps with a ratio term away from them: the common value comes back.
C9_Witness ==
    /\ MntDone
    /\ MinCap = MaxCapOf
    /\ RatioNum * call.ntok > MaxCapOf * RatioDen
    /\ ret = Return(MinCap)

(***************************************************************************)
(* Claims about Loaders, checked under SpecLoaders.                        *)
(***************************************************************************)
LoadDone == call.op = "Loaders.load" /\ ret # Pending
IsFromPretrained(c) == c.fn = "from_pretrained"
Raised(c) == c.outcome \notin {"ok", "none"}
\* The positions of the trace holding a from_pretrained call.
Attempts == {i \in DOMAIN trace : IsFromPretrained(trace[i])}
\* The last from_pretrained call made on a class.
LastAttempt(cls) ==
    LET S == {i \in Attempts : trace[i].cls = cls}
    IN  CHOOSE i \in S : \A j \in S : j <= i

\* C2: every load attempts the local path root / model_id first; the remote
\* attempt, by id with cache_dir = root, is made only right after a local
\* attempt on the same class has raised, and then exactly once; a local
\* attempt that succeeded is what the caller gets.
C2_LocalThenRemote ==
    LoadDone =>
        /\ \A i \in Attempts :
              LET c == trace[i] IN
              /\ c.tier = "local" =>
                    /\ c.arg = <<Root, ModelId>>
                    /\ c.cache_dir = Absent
                    /\ Raised(c) <=>
                          /\ i < Len(trace)
                          /\ IsFromPretrained(trace[i + 1])
                          /\ trace[i + 1].tier = "remote"
              /\ c.tier = "remote" =>
                    /\ c.arg = <<ModelId>>
                    /\ c.cache_dir = Root
                    /\ i > 1
                    /\ IsFromPretrained(trace[i - 1])
                    /\ trace[i - 1].tier = "local"
                    /\ trace[i - 1].cls = c.cls
                    /\ Raised(trace[i - 1])
        /\ ret.kind = "return" =>
              \A k \in DOMAIN ret.value :
                  /\ trace[LastAttempt(mapping[k])].outcome = "ok"
                  /\ trace[LastAttempt(mapping[k])].tier = ret.value[k].tier

\* A load of two kinds: the first came from the local path with no remote
\* attempt, the second from the remote attempt after its local one raised.
C2_Witness ==
    /\ LoadDone
    /\ ret.kind = "return"
    /\ Len(call.request) = 2
    /\ Len(trace) >= 3
    /\ \E i \in Attempts :
          /\ trace[i].tier = "local" /\ trace[i].outcome = "ok"
          /\ ret.value[call.request[1]].tier = "local"
    /\ \E i \in Attempts :
          /\ trace[i].tier = "remote" /\ trace[i].outcome = "ok"
          /\ ret.value[call.request[2]].tier = "remote"

\* A load that could not get a requested artifact: an attempt returned None
\* where its result is used, or the remote attempt raised after the local one.
FailedLoad ==
    \E i \in Attempts :
        \/ trace[i].tier = "remote" /\ trace[i].outcome # "ok"
        \/ trace[i].tier = "local" /\ trace[i].outcome = "none"

\* C3: a failed load raises a value error: whenever Loaders.load cannot load a
\* requested artifact (both attempts raise, or the loader yields None), the
\* call ends with ValueError.
C3_FailedLoadRaisesValueError ==
    (LoadDone /\ FailedLoad) => ret = Raise("ValueError")

\* The part of C3 the code has: a loader that yields None ends the call with ValueError.
C3_NoneIsValueError ==
    /\ LoadDone
    /\ \E i \in Attempts : trace[i].outcome = "none"
    /\ ret = Raise("ValueError")

\* The positions of the request naming an unknown kind.
UnknownAt == {i \in DOMAIN call.request : call.request[i] \notin DOMAIN mapping}
FirstUnknown == CHOOSE i \in UnknownAt : \A j \in UnknownAt : i <= j
LocalAttempts == Cardinality({i \in Attempts : trace[i].tier = "local"})

\* C4: a request naming an unknown kind, at whatever position, ends with
\* ValueError; no loader is invoked for the unknown kind or any kind after
\* it, and nothing is returned.
C4_UnknownKindRaisesValueError ==
    (LoadDone /\ UnknownAt # {}) =>
        /\ ret = Raise("ValueError")
        /\ LocalAttempts < FirstUnknown

\* The part of C4 the code has: an unknown kind after a kind that loaded ends
\* the call with ValueError, with one load made.
C4_UnknownAfterLoaded ==
    /\ LoadDone
    /\ Len(call.request) = 2
    /\ UnknownAt = {2}
    /\ LocalAttempts = 1
    /\ ret = Raise("ValueError")

\* The `to` calls of the trace.
Moves == {i \in DOMAIN trace : trace[i].fn = "to"}
DeviceKinds == {"ved_model", "seq2seq", "model"}

\* C10: an artifact is moved to the device iff its kind is ved_model, seq2seq
\* or model; the device is the dev argument (default cpu); the dict holds, for
\* each requested kind, one entry, which is what the move returned.
C10_DeviceMove ==
    LoadDone =>
        /\ \A i \in Moves :
              /\ trace[i].dev = (IF call.dev = Absent THEN "cpu" ELSE call.dev)
              /\ trace[i].cls \in {mapping[k] : k \in DeviceKinds}
              /\ i > 1
              /\ IsFromPretrained(trace[i - 1])
              /\ trace[i - 1].cls = trace[i].cls
              /\ trace[i - 1].outcome = "ok"
        /\ ret.kind = "return" =>
              /\ DOMAIN ret.value = {call.request[i] : i \in DOMAIN call.request}
              /\ Cardinality(Moves) =
                    Cardinality({i \in DOMAIN call.request : call.request[i] \in DeviceKinds})
              /\ \A k \in DOMAIN ret.value :
                    IF k \in DeviceKinds
                    THEN ret.value[k].device = (IF call.dev = Absent THEN "cpu" ELSE call.dev)
                    ELSE ret.value[k].device = Absent

\* A load of the plain model and a tokenizer onto cuda: the model is on cuda,
\* the tokenizer was not moved.
C10_Witness ==
    /\ LoadDone
    /\ ret.kind = "return"
    /\ call.dev = "cuda"
    /\ DOMAIN ret.value = {"model", "tokenizer"}
    /\ ret.value["model"].device = "cuda"
    /\ ret.value["tokenizer"].device = Absent
    /\ Cardinality(Moves) = 1

(***************************************************************************)
(* Claims about the adapters, checked under Spec.                          *)
(***************************************************************************)
TslLoaded(self) == self.model # None /\ self.tokenizer # None
OcrLoaded(self) ==
    self.model # None /\ self.tokenizer # None /\ self.image_processor # None

\* C5: use before load raises a runtime error: _translate and _ocr called
\* while an artifact is None raise RuntimeError, whatever their arguments,
\* and call neither tokenizer, image processor nor model.
C5_UseBeforeLoad ==
    /\ (call.op = "_translate" /\ ~TslLoaded(call.before)) =>
          /\ ret = Raise("RuntimeError")
          /\ trace = <<>>
          /\ tsl = call.before
    /\ (call.op = "_ocr" /\ ~OcrLoaded(call.before)) =>
          /\ ret = Raise("RuntimeError")
          /\ trace = <<>>
          /\ ocr = call.before

\* _translate on an unloaded translator with tokens that are no list: the
\* error is the RuntimeError, not the TypeError of the argument.
C5_Witness ==
    /\ call.op = "_translate"
    /\ ~TslLoaded(call.before)
    /\ call.tokens = PyInt
    /\ ret = Raise("RuntimeError")

\* C6: after a load that returned every artifact field is set; after unload
\* every field is None; unload raises nothing, on an unloaded adapter too.
C6_LoadUnload ==
    /\ (call.op = "load" /\ ret.kind = "return") =>
          IF call.self = "tsl"
          THEN /\ tsl.model # None /\ tsl.tokenizer # None
               /\ tsl.model.cls = "AutoModelForSeq2SeqLM"
               /\ tsl.model.device = dev
               /\ tsl.tokenizer.cls = "AutoTokenizer"
          ELSE /\ ocr.model # None /\ ocr.tokenizer # None /\ ocr.image_processor # None
               /\ ocr.model.cls = "VisionEncoderDecoderModel"
               /\ ocr.model.device = dev
               /\ ocr.tokenizer.cls = "AutoTokenizer"
               /\ ocr.image_processor.cls = "AutoImageProcessor"
    /\ call.op = "unload" =>
          /\ ret = Return(None)
          /\ IF call.self = "tsl" THEN tsl = TslInit ELSE ocr = OcrInit

\* unload of a loaded translator: both fields were set and are None now.
C6_Witness ==
    /\ call.op = "unload"
    /\ call.self = "tsl"
    /\ TslLoaded(call.before)
    /\ tsl = TslInit
    /\ ret = Return(None)

\* C7: on a loaded translator, _translate with tokens that are neither a list
\* of strings nor a list of lists of strings raises TypeError and calls
\* neither the tokenizer nor the model.
C7_MalformedTokensTypeError ==
    (call.op = "_translate" /\ TslLoaded(call.before) /\ ~WellFormed(call.tokens)) =>
        /\ ret = Raise("TypeError")
        /\ trace = <<>>

\* The part of C7 the code has: tokens that are no list raise TypeError.
C7_NonListTypeError ==
    /\ call.op = "_translate"
    /\ TslLoaded(call.before)
    /\ call.tokens = PyStr("w")
    /\ ret = Raise("TypeError")
    /\ trace = <<>>

\* C8: on a loaded OCR model, _ocr raises TypeError if img is no Pillow image.
C8_NonImageTypeError ==
    (call.op = "_ocr" /\ OcrLoaded(call.before) /\ call.img # PilImage) =>
        ret = Raise("TypeError")

\* A call of _translate on a loaded translator with tokens of the given shape.
TranslateOf(shape) ==
    /\ call.op = "_translate"
    /\ TslLoaded(call.before)
    /\ call.tokens \in shape
NonEmpty(shape) == {x \in shape : Len(x.items) > 0}
\* The value is a list of n translated strings.
IsTranslations(v, n) ==
    /\ v.type = "list"
    /\ Len(v.items) = n
    /\ \A i \in DOMAIN v.items : v.items[i] = PyStr("tsl")
\* The library calls of a translation that ran to its end.
CalledTokenizer == \E i \in DOMAIN trace : trace[i].fn = "tokenizer"
CalledModel == \E i \in DOMAIN trace : trace[i].fn = "model.generate"
\* The options of the call give a lower cap above the upper cap.
CapsCrossed ==
    /\ call.options.given
    /\ Get(call.options.dict, "min_max_new_tokens", 20) >
          Get(call.options.dict, "max_max_new_tokens", 512)

\* C11 as stated: on a loaded translator _translate returns one translated
\* string for a list of strings, a list of translated strings, one per
\* sequence, for a list of lists of strings, and '' for the empty list,
\* without calling tokenizer or model.
C11_TranslateShapes ==
    /\ TranslateOf(StrLists \ NonEmpty(StrLists)) =>
          ret = Return(PyStr("")) /\ trace = <<>>
    /\ TranslateOf(NonEmpty(StrLists)) => ret = Return(PyStr("tsl"))
    /\ TranslateOf(ListLists) =>
          ret.kind = "return" /\ IsTranslations(ret.value, Len(call.tokens.items))

\* C11 as amended: the same, for options whose lower cap does not exceed
\* the upper cap; with the caps crossed a non-empty list ends with the
\* ValueError of get_mnt, after the tokenizer and before the model.
C11_TranslateShapesValidCaps ==
    /\ TranslateOf(StrLists \ NonEmpty(StrLists)) =>
          ret = Return(PyStr("")) /\ trace = <<>>
    /\ (TranslateOf(NonEmpty(StrLists)) /\ ~CapsCrossed) =>
          ret = Return(PyStr("tsl")) /\ CalledTokenizer /\ CalledModel
    /\ (TranslateOf(ListLists) /\ ~CapsCrossed) =>
          /\ ret.kind = "return"
          /\ IsTranslations(ret.value, Len(call.tokens.items))
          /\ CalledTokenizer /\ CalledModel
    /\ (TranslateOf(NonEmpty(StrLists) \cup ListLists) /\ CapsCrossed) =>
          ret = Raise("ValueError") /\ CalledTokenizer /\ ~CalledModel

\* A batch of two sequences translated with explicit caps: two strings.
C11_Witness ==
    /\ TranslateOf(ListLists)
    /\ Len(call.tokens.items) = 2
    /\ call.options.given
    /\ ~CapsCrossed
    /\ ret.kind = "return"
    /\ IsTranslations(ret.value, 2)

\* C12: a load that raises leaves the artifact fields as they were, so the
\* fields of an adapter are always all None or all set.
C12_LoadIsAtomic ==
    /\ (call.op = "load" /\ ret.kind = "raise") =>
          IF call.self = "tsl" THEN tsl = call.before ELSE ocr = call.before
    /\ tsl = TslInit \/ TslLoaded(tsl)
    /\ ocr = OcrInit \/ OcrLoaded(ocr)

\* A load of the translator that raised after its model had loaded, on a
\* loaded translator: the fields are the ones of before.
C12_Witness ==
    /\ call.op = "load"
    /\ call.self = "tsl"
    /\ ret.kind = "raise"
    /\ TslLoaded(call.before)
    /\ tsl = call.before
    /\ \E i \in DOMAIN trace : trace[i].fn = "to"
====
